---- MODULE Spec2Model ----
(***************************************************************************)
(* A model of src-tauri/src/lib.rs of Steam-Shortcut-Fixer: the library    *)
(* locator, the manifest parser and catalog builder, the folder stager     *)
(* (rename / revert / cleanup) and the shortcut repair engine.             *)
(*                                                                         *)
(* Text is modelled as a sequence of tokens (a token is one character or   *)
(* one indivisible word), so that splitting, unescaping, suffix tests and  *)
(* suffix trimming are computed rather than assumed.  A line of a          *)
(* descriptor or manifest file is the sequence of its parts between        *)
(* double quotes, i.e. the value of line.split("\"").                      *)
(***************************************************************************)
EXTENDS Integers, Sequences, FiniteSets, TLC

VARIABLES
    steamapps_path, \* the root path handed to the commands
    vdf,            \* libraryfolders.vdf under the input root
    disk,           \* library directories (".../steamapps") that exist
    common,         \* per library: its "common" directory
    emptyDirs,      \* ids of the directories that have no content
    listing,        \* per library: the entries directly inside it
    libraries,      \* result of the last get_steam_library_folders
    games,          \* result of the last scan_games
    parsed,         \* per manifest examined by the last scan: its outcome
    lastOp,         \* the last folder-stager command, its result, the folders before it
    pc,
    locations,      \* the shortcut locations and the entries directly inside each
    cacheDir,       \* whether the icon cache directory exists
    cache,          \* per icon file name: the file of that name in the icon cache
    inv,            \* per quick_fix_shortcuts invocation: its position and its results
    okBefore,       \* shortcut files reported succeeded by a finished run, with the run
    pendingRetry,   \* icon file names whose last fetch failed and that no shortcut has asked for since
    writes          \* per icon file name: how often its cache file was created

fsVars == <<steamapps_path, vdf, disk, common, emptyDirs, listing>>
cmdVars == <<libraries, games, parsed, lastOp, pc>>
scVars == <<locations, cacheDir, cache, inv, okBefore, pendingRetry, writes>>
vars == <<steamapps_path, vdf, disk, common, emptyDirs, listing,
          libraries, games, parsed, lastOp, pc,
          locations, cacheDir, cache, inv, okBefore, pendingRetry, writes>>

(***************************************************************************)
(* Bounds of the model.                                                    *)
(***************************************************************************)
MaxLines == 2      \* lines of the descriptor file
MaxEntries == 2    \* directory entries over all scanned libraries
MaxSuffix == 2     \* repetitions of the sentinel suffix in a folder name
MaxShortcuts == 2  \* entries over all shortcut locations
MaxRuns == 2       \* quick_fix_shortcuts calls of one invocation slot

(***************************************************************************)
(* Text helpers.                                                           *)
(***************************************************************************)
BS == "\\"                    \* one backslash
SUFFIX == "_temp_rename"      \* the sentinel suffix, one token

RECURSIVE SeqsUpTo(_, _)
SeqsUpTo(S, n) ==
    IF n = 0 THEN {<<>>}
    ELSE LET shorter == SeqsUpTo(S, n - 1)
         IN  shorter \cup {Append(s, x) : s \in {t \in shorter : Len(t) = n - 1}, x \in S}

\* str.replace("\\\\", "\\"): every non-overlapping pair of backslashes,
\* found left to right, becomes one backslash.
RECURSIVE ReplaceDoubleBackslash(_)
ReplaceDoubleBackslash(s) ==
    IF Len(s) = 0 THEN <<>>
    ELSE IF Len(s) >= 2 /\ s[1] = BS /\ s[2] = BS
         THEN <<BS>> \o ReplaceDoubleBackslash(SubSeq(s, 3, Len(s)))
         ELSE <<s[1]>> \o ReplaceDoubleBackslash(SubSeq(s, 2, Len(s)))

None == [some |-> FALSE]
Some(v) == [some |-> TRUE, val |-> v]

\* extract_value: parts = line.split("\""); parts[3] (0-based) unescaped when
\* there are at least four parts.
extract_value(line) ==
    IF Len(line) >= 4 THEN Some(ReplaceDoubleBackslash(line[4])) ELSE None

\* line.contains("\"key\""): the key stands between two quote characters, so it
\* is a whole part that is neither the first nor the last of the split.
Contains(line, key) == \E i \in 2..(Len(line) - 1) : line[i] = <<key>>

\* The file text `<tab>"key"<tab><tab>"value"`, split on the quote character.
KV(key, value) == << <<"\t">>, <<key>>, <<"\t", "\t">>, value, <<>> >>
\* `<tab>"key"`: a key with nothing after it.
KeyOnly(key) == << <<"\t">>, <<key>>, <<>> >>

(***************************************************************************)
(* Paths.  PathBuf::join appends a component; joining onto the empty path  *)
(* gives the relative path made of the component alone, and joining the    *)
(* empty component gives the directory itself.                             *)
(***************************************************************************)
Join(p, name) == IF p = <<>> THEN <<name>> ELSE p \o <<"/", name>>

BaseC == <<"C", ":", BS, "S">>
BaseD == <<"D", ":", BS, "G">>
BaseE == <<"E", ":">>
RC == Join(BaseC, "steamapps")
RD == Join(BaseD, "steamapps")
RE == Join(BaseE, "steamapps")
RRel == Join(<<>>, "steamapps")      \* "steamapps" relative to the working directory
Roots == {RC, RD}                    \* the libraries whose content is modelled
AllRoots == {RC, RD, RE, RRel}

\* The descriptor's values as written in the file: backslashes doubled.
RawC == <<"C", ":", BS, BS, "S">>
RawD == <<"D", ":", BS, BS, "G">>
RawE == <<"E", ":">>

(***************************************************************************)
(* get_steam_library_folders                                               *)
(***************************************************************************)
Exists(p) == p \in disk

RECURSIVE LibraryLoopMissingSelfCheck(_, _, _)
LibraryLoopMissingSelfCheck(lines, i, acc) ==
    IF i > Len(lines) THEN acc
    ELSE LET line == lines[i]
             v == extract_value(line)
             library_path == Join(v.val, "steamapps")
         IN  IF Contains(line, "path") /\ v.some /\ v.val # <<>> /\ Exists(library_path)
             THEN LibraryLoopMissingSelfCheck(lines, i + 1, Append(acc, library_path))
             ELSE LibraryLoopMissingSelfCheck(lines, i + 1, acc)

RECURSIVE LibraryLoop(_, _, _)
LibraryLoop(lines, i, acc) ==
    IF i > Len(lines) THEN acc
    ELSE LET line == lines[i]
             v == extract_value(line)
             library_path == Join(v.val, "steamapps")
         IN  IF /\ Contains(line, "path")
                /\ v.some
                /\ v.val # <<>>
                /\ Exists(library_path)
                /\ library_path # steamapps_path
             THEN LibraryLoop(lines, i + 1, Append(acc, library_path))
             ELSE LibraryLoop(lines, i + 1, acc)

get_steam_library_folders ==
    IF vdf.readable THEN LibraryLoop(vdf.lines, 1, <<steamapps_path>>)
    ELSE <<steamapps_path>>

(***************************************************************************)
(* The "common" directory of a library: whether it exists and, per folder  *)
(* name, the id of the directory of that name (0: no such entry).  Folder  *)
(* names are a base followed by zero or more sentinel suffixes.            *)
(***************************************************************************)
RECURSIVE WithSuffixes(_, _)
WithSuffixes(name, k) == IF k = 0 THEN name ELSE Append(WithSuffixes(name, k - 1), SUFFIX)

StagedNames == {WithSuffixes(<<"g">>, k) : k \in 0..MaxSuffix}
DirNames == StagedNames \cup {<<"h">>}

NameIdx(name) == IF name[1] = "g" THEN Len(name) ELSE MaxSuffix + 2
DirId(root, name) == (IF root = RC THEN 0 ELSE MaxSuffix + 2) + NameIdx(name)
DirIds == {DirId(r, n) : r \in Roots, n \in DirNames}

\* The common directory of `root` holding the folders `present`, each with
\* the id of the place it starts in.
MkCommon(root, exists, present) ==
    [exists |-> exists,
     entries |-> [n \in DirNames |-> IF exists /\ n \in present THEN DirId(root, n) ELSE 0]]

NoCommon(root) == MkCommon(root, FALSE, {})

\* common_path.join(name).exists()
InCommon(root, name) ==
    /\ root \in Roots
    /\ common[root].exists
    /\ \/ name = <<>>
       \/ name \in DirNames /\ common[root].entries[name] # 0

(***************************************************************************)
(* parse_manifest                                                          *)
(***************************************************************************)
RECURSIVE ManifestLoop(_, _, _)
ManifestLoop(lines, i, acc) ==
    IF i > Len(lines) THEN acc
    ELSE LET line == lines[i]
             v == extract_value(line)
             next ==
                 IF Contains(line, "appid")
                 THEN (IF v.some THEN [acc EXCEPT !.app_id = v.val] ELSE acc)
                 ELSE IF Contains(line, "name")
                 THEN (IF v.some THEN [acc EXCEPT !.name = v.val] ELSE acc)
                 ELSE IF Contains(line, "installdir")
                 THEN (IF v.some THEN [acc EXCEPT !.install_dir = v.val] ELSE acc)
                 ELSE acc
         IN  ManifestLoop(lines, i + 1, next)

Err(e) == [ok |-> FALSE, error |-> e]
Ok(v) == [ok |-> TRUE, val |-> v]

parse_manifest(entry, root) ==
    IF ~entry.readable THEN Err("Failed to read manifest")
    ELSE LET f == ManifestLoop(entry.lines, 1, [name |-> <<>>, app_id |-> <<>>, install_dir |-> <<>>])
         IN  IF f.name # <<>> /\ f.app_id # <<>> /\ InCommon(root, f.install_dir)
             THEN Ok([name |-> f.name, app_id |-> f.app_id, path |-> f.install_dir, status |-> "ready"])
             ELSE Err("Invalid manifest data")

(***************************************************************************)
(* scan_games                                                              *)
(***************************************************************************)
\* The file name of the i-th entry of a listing.
FileName(entry, i) == <<entry.pre, i, entry.ext>>
starts_with(name, prefix) == Len(name) >= 1 /\ name[1] = prefix
ends_with(name, suffix) == Len(name) >= 1 /\ name[Len(name)] = suffix

\* One manifest candidate: games, seen_app_ids and the record of what
\* happened to it (parsed: the parse result and whether it was pushed).
ScanEntryNoDedup(acc, root, li, i) ==
    LET entry == listing[root][i]
        fname == FileName(entry, i)
    IN  IF starts_with(fname, "appmanifest_") /\ ends_with(fname, ".acf")
        THEN LET r == parse_manifest(entry, root)
                 fresh == r.ok
             IN  [games |-> IF fresh THEN Append(acc.games, r.val) ELSE acc.games,
                  seen |-> IF r.ok THEN acc.seen \cup {r.val.app_id} ELSE acc.seen,
                  parsed |-> Append(acc.parsed,
                        [lib |-> li, root |-> root, idx |-> i, entry |-> entry,
                         result |-> r, kept |-> fresh])]
        ELSE acc

ScanEntry(acc, root, li, i) ==
    LET entry == listing[root][i]
        fname == FileName(entry, i)
    IN  IF starts_with(fname, "appmanifest_") /\ ends_with(fname, ".acf")
        THEN LET r == parse_manifest(entry, root)
                 fresh == r.ok /\ r.val.app_id \notin acc.seen
             IN  [games |-> IF fresh THEN Append(acc.games, r.val) ELSE acc.games,
                  seen |-> IF r.ok THEN acc.seen \cup {r.val.app_id} ELSE acc.seen,
                  parsed |-> Append(acc.parsed,
                        [lib |-> li, root |-> root, idx |-> i, entry |-> entry,
                         result |-> r, kept |-> fresh])]
        ELSE acc

RECURSIVE ScanEntries(_, _, _, _)
ScanEntries(acc, root, li, i) ==
    IF i > Len(listing[root]) THEN acc
    ELSE ScanEntries(ScanEntry(acc, root, li, i), root, li, i + 1)

RECURSIVE ScanLibraries(_, _, _)
ScanLibraries(acc, libs, li) ==
    IF li > Len(libs) THEN acc
    ELSE LET root == libs[li]
         IN  IF root \in Roots /\ common[root].exists
             THEN ScanLibraries(ScanEntries(acc, root, li, 1), libs, li + 1)
             ELSE ScanLibraries(acc, libs, li + 1)

scan_games ==
    /\ pc = "idle"
    /\ LET libs == get_steam_library_folders
           r == ScanLibraries([games |-> <<>>, seen |-> {}, parsed |-> <<>>], libs, 1)
       IN  /\ libraries' = libs
           /\ games' = r.games
           /\ parsed' = r.parsed
    /\ pc' = "scanned"
    /\ UNCHANGED <<fsVars, lastOp, scVars>>

(***************************************************************************)
(* The inputs of a scan: the descriptor, the libraries on disk and their   *)
(* manifests.                                                              *)
(***************************************************************************)
PathLine(raw) == KV("path", raw)
Header == KeyOnly("AppState")

FieldLine(key, o) == IF o.some THEN <<KV(key, o.val)>> ELSE <<>>
Manifest(id, name, dir) ==
    <<Header>> \o FieldLine("appid", id) \o FieldLine("name", name) \o FieldLine("installdir", dir)

ManifestTexts ==
    { Manifest(Some(<<"1">>), Some(<<"A">>), Some(<<"g">>)),
      Manifest(Some(<<"1">>), Some(<<"B">>), Some(<<"h">>)),
      Manifest(Some(<<"2">>), Some(<<"A">>), Some(<<"g">>)),
      Manifest(None, Some(<<"A">>), Some(<<"g">>)),
      Manifest(Some(<<"1">>), None, Some(<<"g">>)),
      Manifest(Some(<<"2">>), Some(<<"B">>), None),
      Manifest(Some(<<"1">>), Some(<<"A">>), Some(<<>>)),
      Manifest(Some(<<>>), Some(<<"A">>), Some(<<"g">>)),
      Manifest(Some(<<"2">>), Some(<<>>), Some(<<"h">>)),
      Manifest(Some(<<"2">>), Some(<<"A">>), Some(<<"h">>)) \o <<KV("installdir", <<"g">>)>>,
      Manifest(Some(<<"1">>), Some(<<"B">>), None) \o <<KeyOnly("installdir")>> }

ScanEntryKinds ==
    {[pre |-> "appmanifest_", ext |-> ".acf", readable |-> TRUE, lines |-> m] : m \in ManifestTexts}
    \cup {[pre |-> "appmanifest_", ext |-> ".acf", readable |-> FALSE,
           lines |-> Manifest(Some(<<"1">>), Some(<<"A">>), Some(<<"g">>))],
          [pre |-> "appmanifest_", ext |-> ".ACF", readable |-> TRUE,
           lines |-> Manifest(Some(<<"2">>), Some(<<"A">>), Some(<<"g">>))],
          [pre |-> "manifest_", ext |-> ".acf", readable |-> TRUE,
           lines |-> Manifest(Some(<<"2">>), Some(<<"B">>), Some(<<"g">>))]}

ScanDescriptors ==
    {[readable |-> FALSE, lines |-> <<PathLine(RawD)>>],
     [readable |-> TRUE, lines |-> <<PathLine(RawC), PathLine(RawD)>>],
     [readable |-> TRUE, lines |-> <<PathLine(RawD), PathLine(RawD)>>]}

CommonLayouts(root) ==
    {NoCommon(root), MkCommon(root, TRUE, {<<"g">>}), MkCommon(root, TRUE, {<<"g">>, <<"h">>})}

NoOp == [op |-> "none"]

\* No shortcut repair is going on.
NoShortcuts ==
    /\ locations = <<>>
    /\ cacheDir = FALSE
    /\ cache = <<>>
    /\ inv = <<>>
    /\ okBefore = {}
    /\ pendingRetry = {}
    /\ writes = <<>>

InitScan ==
    /\ steamapps_path = RC
    /\ vdf \in ScanDescriptors
    /\ disk = {RC, RD}
    /\ common \in {c \in [Roots -> UNION {CommonLayouts(r) : r \in Roots}] :
                      /\ \A r \in Roots : c[r] \in CommonLayouts(r)
                      /\ ~vdf.readable => c[RD] = NoCommon(RD)}
    /\ emptyDirs = {}
    /\ \E lc \in SeqsUpTo(ScanEntryKinds, MaxEntries) :
       \E ld \in SeqsUpTo(ScanEntryKinds, IF vdf.readable THEN MaxEntries - Len(lc) ELSE 0) :
          listing = [r \in Roots |-> IF r = RC THEN lc ELSE ld]
    /\ libraries = <<>>
    /\ games = <<>>
    /\ parsed = <<>>
    /\ lastOp = NoOp
    /\ NoShortcuts
    /\ pc = "idle"

NextScan == scan_games

SpecScan == InitScan /\ [][NextScan]_vars

(***************************************************************************)
(* Claims about the catalog.                                               *)
(***************************************************************************)
ParsedOk(i) == parsed[i].result.ok

\* C1: the catalog returned by scan_games never holds two records with the
\* same identifier, and the record kept for an identifier is the one of the
\* earliest manifest, in library-then-listing order, that parsed with it.
C1_CatalogUniqueFirstWins ==
    pc = "scanned" =>
        /\ \A i, j \in 1..Len(games) : i # j => games[i].app_id # games[j].app_id
        /\ \A k \in 1..Len(games) :
              \E i \in 1..Len(parsed) :
                  /\ ParsedOk(i)
                  /\ parsed[i].result.val = games[k]
                  /\ \A j \in 1..(i - 1) :
                        ~(ParsedOk(j) /\ parsed[j].result.val.app_id = games[k].app_id)
        /\ \A i \in 1..Len(parsed) :
              ParsedOk(i) => \E k \in 1..Len(games) : games[k].app_id = parsed[i].result.val.app_id

\* C1's case: the same identifier parses from manifests of two different
\* libraries with different records, and the scan has returned.
C1_Witness ==
    /\ pc = "scanned"
    /\ \E i, j \in 1..Len(parsed) :
          /\ i < j
          /\ ParsedOk(i) /\ ParsedOk(j)
          /\ parsed[i].root # parsed[j].root
          /\ parsed[i].result.val.app_id = parsed[j].result.val.app_id
          /\ parsed[i].result.val # parsed[j].result.val
          /\ \E k \in 1..Len(games) : games[k] = parsed[i].result.val

\* The value a manifest text gives a key: that of the last `"key" "value"`
\* line, empty when there is none.
FieldOf(lines, key) ==
    LET I == {i \in 1..Len(lines) : Len(lines[i]) >= 4 /\ lines[i][2] = <<key>>}
    IN  IF I = {} THEN <<>> ELSE lines[CHOOSE i \in I : \A j \in I : j <= i][4]

Deficient(p) ==
    \/ FieldOf(p.entry.lines, "appid") = <<>>
    \/ FieldOf(p.entry.lines, "name") = <<>>
    \/ FieldOf(p.entry.lines, "installdir") = <<>>
    \/ ~InCommon(p.root, FieldOf(p.entry.lines, "installdir"))

\* C2: every readable manifest that misses one of appid, name, installdir, has
\* one of them empty, or names an install directory that does not exist, fails
\* with InvalidManifest and gives no record to the catalog.
C2_DeficientManifestRejected ==
    pc = "scanned" =>
        \A i \in 1..Len(parsed) :
            (parsed[i].entry.readable /\ Deficient(parsed[i])) =>
                /\ ~ParsedOk(i)
                /\ parsed[i].result.error = "Invalid manifest data"
                /\ ~parsed[i].kept

(***************************************************************************)
(* The locator on its own: any descriptor over any set of existing         *)
(* libraries.                                                              *)
(***************************************************************************)
Locate ==
    /\ pc = "idle"
    /\ libraries' = get_steam_library_folders
    /\ pc' = "located"
    /\ UNCHANGED <<fsVars, games, parsed, lastOp, scVars>>

LocatorLines ==
    {PathLine(RawC), PathLine(RawD), PathLine(RawE), PathLine(<<>>),
     KeyOnly("path"), KV("label", RawD),
     << <<>>, <<"path">>, <<"\t">>, RawD >>}

InitLocator ==
    /\ steamapps_path \in {RC, RD}
    /\ vdf \in [readable : BOOLEAN, lines : SeqsUpTo(LocatorLines, MaxLines)]
    /\ disk \in SUBSET AllRoots
    /\ common = [r \in Roots |-> NoCommon(r)]
    /\ emptyDirs = {}
    /\ listing = [r \in Roots |-> <<>>]
    /\ libraries = <<>>
    /\ games = <<>>
    /\ parsed = <<>>
    /\ lastOp = NoOp
    /\ NoShortcuts
    /\ pc = "idle"

NextLocator == Locate

SpecLocator == InitLocator /\ [][NextLocator]_vars

HasValue(line) == Contains(line, "path") /\ Len(line) >= 4
HasNonEmptyValue(line) == HasValue(line) /\ line[4] # <<>>
DerivedRoot(line) == Join(ReplaceDoubleBackslash(line[4]), "steamapps")
OnDiskNotInput(line) == DerivedRoot(line) \in disk /\ DerivedRoot(line) # steamapps_path
DescriptorLines == IF vdf.readable THEN vdf.lines ELSE <<>>
RootsOf(lines) == [i \in 1..Len(lines) |-> DerivedRoot(lines[i])]

\* C8 as stated: the result starts with the input root, and the rest is exactly
\* the roots derived from the descriptor's "path" lines, in file order, that
\* exist on disk and are not the input root; the input root occurs once.
C8_AsStated ==
    pc = "located" =>
        /\ libraries[1] = steamapps_path
        /\ Tail(libraries) = RootsOf(SelectSeq(SelectSeq(DescriptorLines, HasValue), OnDiskNotInput))
        /\ Cardinality({i \in 1..Len(libraries) : libraries[i] = steamapps_path}) = 1

\* C8 amended: as stated, for the "path" lines whose value is not empty; a
\* line with an empty value adds nothing, whatever exists on disk.
C8_LocatorResult ==
    pc = "located" =>
        /\ libraries[1] = steamapps_path
        /\ Tail(libraries) =
              RootsOf(SelectSeq(SelectSeq(DescriptorLines, HasNonEmptyValue), OnDiskNotInput))
        /\ Cardinality({i \in 1..Len(libraries) : libraries[i] = steamapps_path}) = 1

\* C8's case: a readable descriptor names the input root itself and the
\* locator returns the input root followed by one discovered library.
C8_Witness ==
    /\ pc = "located"
    /\ vdf.readable
    /\ \E i \in 1..Len(vdf.lines) :
          HasValue(vdf.lines[i]) /\ DerivedRoot(vdf.lines[i]) = steamapps_path
    /\ Len(libraries) = 2

(***************************************************************************)
(* The folder stager.  fs::rename of a directory inside one common         *)
(* directory: onto itself it succeeds and changes nothing; onto a free     *)
(* name it moves the directory; onto an existing directory it fails,       *)
(* or, when that directory is empty, replaces it.  Any rename may also     *)
(* fail for a reason outside the model (permissions, files in use).        *)
(***************************************************************************)
Move(c, root, from, to) ==
    [c EXCEPT ![root].entries =
        [n \in DirNames |->
            IF n = to THEN c[root].entries[from]
            ELSE IF n = from THEN 0
            ELSE c[root].entries[n]]]

RenameOutcomes(c, root, from, to) ==
    IF from = to THEN {[ok |-> TRUE, common |-> c]}
    ELSE {[ok |-> FALSE, common |-> c]}
         \cup (IF c[root].entries[to] = 0 \/ c[root].entries[to] \in emptyDirs
               THEN {[ok |-> TRUE, common |-> Move(c, root, from, to)]}
               ELSE {})

\* format!("{}_temp_rename", game_path)
AddSuffix(name) == Append(name, SUFFIX)

\* str::trim_end_matches("_temp_rename"): the suffix is removed repeatedly.
RECURSIVE trim_end_matches(_)
trim_end_matches(name) ==
    IF ends_with(name, SUFFIX) THEN trim_end_matches(SubSeq(name, 1, Len(name) - 1))
    ELSE name

Has(c, root, name) == root \in Roots /\ c[root].exists /\ c[root].entries[name] # 0

\* Position in libs of the root a "for library in libraries" loop that returns
\* at its first hit stops at; 0 when the loop runs to its end.
LastMatch(c, libs, name) ==
    LET I == {i \in 1..Len(libs) : Has(c, libs[i], name)}
    IN  IF I = {} THEN 0 ELSE CHOOSE i \in I : \A j \in I : j <= i

RECURSIVE FirstFrom(_, _, _, _)
FirstFrom(c, libs, name, i) ==
    IF i > Len(libs) THEN 0
    ELSE IF Has(c, libs[i], name) THEN i
    ELSE FirstFrom(c, libs, name, i + 1)

FirstMatch(c, libs, name) == FirstFrom(c, libs, name, 1)

rename_game_folder(game_path) ==
    /\ AddSuffix(game_path) \in DirNames      \* the staged name stays within the modelled names
    /\ LET libs == get_steam_library_folders
           i == FirstMatch(common, libs, game_path)
       IN  /\ libraries' = libs
           /\ IF i = 0
              THEN /\ common' = common
                   /\ lastOp' = [op |-> "rename", arg |-> game_path, ok |-> FALSE,
                                 ret |-> "Game folder not found in any library",
                                 pre |-> common]
              ELSE \E o \in RenameOutcomes(common, libs[i], game_path, AddSuffix(game_path)) :
                   /\ common' = o.common
                   /\ lastOp' = [op |-> "rename", arg |-> game_path, ok |-> o.ok,
                                 ret |-> IF o.ok THEN AddSuffix(game_path)
                                         ELSE "Failed to rename folder",
                                 pre |-> common]
    /\ UNCHANGED <<steamapps_path, vdf, disk, emptyDirs, listing, games, parsed, pc, scVars>>

revert_game_folder(temp_name) ==
    /\ LET libs == get_steam_library_folders
           i == FirstMatch(common, libs, temp_name)
       IN  /\ libraries' = libs
           /\ IF i = 0
              THEN /\ common' = common
                   /\ lastOp' = [op |-> "revert", arg |-> temp_name, ok |-> FALSE,
                                 ret |-> "Temp folder not found in any library",
                                 pre |-> common]
              ELSE \E o \in RenameOutcomes(common, libs[i], temp_name, trim_end_matches(temp_name)) :
                   /\ common' = o.common
                   /\ lastOp' = [op |-> "revert", arg |-> temp_name, ok |-> o.ok,
                                 ret |-> IF o.ok THEN "" ELSE "Failed to revert folder",
                                 pre |-> common]
    /\ UNCHANGED <<steamapps_path, vdf, disk, emptyDirs, listing, games, parsed, pc, scVars>>

\* The entries of one common directory, taken in any order (read_dir gives
\* no order): every one whose name ends with the suffix is renamed to its
\* trimmed name, and the trimmed name is collected when the rename succeeds.
RECURSIVE CleanEntries(_, _, _, _)
CleanEntries(c, root, todo, cleaned) ==
    IF todo = {} THEN {[common |-> c, cleaned |-> cleaned]}
    ELSE UNION {
           UNION { CleanEntries(o.common, root, todo \ {n},
                                IF o.ok THEN Append(cleaned, trim_end_matches(n)) ELSE cleaned)
                   : o \in RenameOutcomes(c, root, n, trim_end_matches(n)) }
           : n \in todo }

RECURSIVE CleanLibraries(_, _, _, _)
CleanLibraries(c, libs, i, cleaned) ==
    IF i > Len(libs) THEN {[common |-> c, cleaned |-> cleaned]}
    ELSE LET root == libs[i]
             todo == IF root \in Roots /\ c[root].exists
                     THEN {n \in DirNames : c[root].entries[n] # 0 /\ ends_with(n, SUFFIX)}
                     ELSE {}
         IN  UNION { CleanLibraries(r.common, libs, i + 1, r.cleaned)
                     : r \in CleanEntries(c, root, todo, cleaned) }

cleanup_temp_folders ==
    /\ LET libs == get_steam_library_folders
       IN  /\ libraries' = libs
           /\ \E r \in CleanLibraries(common, libs, 1, <<>>) :
                 /\ common' = r.common
                 /\ lastOp' = [op |-> "cleanup", arg |-> <<>>, ok |-> TRUE, ret |-> r.cleaned,
                               pre |-> common]
    /\ UNCHANGED <<steamapps_path, vdf, disk, emptyDirs, listing, games, parsed, pc, scVars>>

StagerDescriptors ==
    {[readable |-> FALSE, lines |-> <<>>],
     [readable |-> TRUE, lines |-> <<PathLine(RawC), PathLine(RawD)>>]}

\* The first library holds an unrelated folder and any of the game folder's
\* names; the second one the game folder, staged or not.
StagerLayouts(root) ==
    IF root = RC
    THEN {MkCommon(root, TRUE, present \cup {<<"h">>}) : present \in SUBSET StagedNames}
    ELSE {MkCommon(root, TRUE, present) : present \in SUBSET {<<"g">>, AddSuffix(<<"g">>)}}

InitStagerFiles ==
    /\ steamapps_path = RC
    /\ vdf \in StagerDescriptors
    /\ disk = {RC, RD}
    /\ common \in {c \in [Roots -> UNION {StagerLayouts(r) : r \in Roots}] :
                      /\ \A r \in Roots : c[r] \in StagerLayouts(r)
                      /\ ~vdf.readable => c[RD] = MkCommon(RD, TRUE, {})}
    /\ listing = [r \in Roots |-> <<>>]
    /\ libraries = <<>>
    /\ games = <<>>
    /\ parsed = <<>>
    /\ lastOp = NoOp
    /\ NoShortcuts
    /\ pc = "idle"

\* Every folder has content.
InitStager == InitStagerFiles /\ emptyDirs = {}

\* The once-staged folder of the first library may be an empty directory.
InitStagerEmpty ==
    /\ InitStagerFiles
    /\ emptyDirs \in {{}, {common[RC].entries[AddSuffix(<<"g">>)]} \ {0}}

NextStager ==
    \/ \E game_path \in DirNames : rename_game_folder(game_path)
    \/ \E temp_name \in DirNames : revert_game_folder(temp_name)
    \/ cleanup_temp_folders

SpecStager == InitStager /\ [][NextStager]_vars

SpecStagerEmpty == InitStagerEmpty /\ [][NextStager]_vars

(***************************************************************************)
(* Claims about the folder stager.                                         *)
(***************************************************************************)
\* C3: rename_game_folder followed by revert_game_folder with the returned
\* name, both succeeding, leaves every library as it was before the rename:
\* the folder is back under its name in its library, the staged name is gone
\* and nothing else has changed.
C3_StageRevertRoundTrip ==
    [][(/\ lastOp.op = "rename" /\ lastOp.ok
        /\ lastOp'.op = "revert" /\ lastOp'.ok
        /\ lastOp'.arg = lastOp.ret)
       => common' = lastOp.pre]_vars

\* The libraries of the last command that held `name` before it, by position.
Holding(name) == {i \in 1..Len(libraries) : Has(lastOp.pre, libraries[i], name)}
FirstHolding(name) == libraries[CHOOSE i \in Holding(name) : \A j \in Holding(name) : i <= j]

\* The folder at (root, n) before the last command is still there.
Kept(root, n) == common[root].entries[n] = lastOp.pre[root].entries[n]

RenameFrame(replaceable) ==
    lastOp.op = "rename" =>
        LET pre == lastOp.pre
            path == lastOp.arg
        IN  IF Holding(path) = {}
            THEN /\ ~lastOp.ok
                 /\ lastOp.ret = "Game folder not found in any library"
                 /\ common = pre
            ELSE LET r == FirstHolding(path)
                 IN  /\ \/ ~lastOp.ok /\ common = pre
                        \/ /\ lastOp.ok
                           /\ lastOp.ret = AddSuffix(path)
                           /\ common[r].entries[path] = 0
                           /\ common[r].entries[AddSuffix(path)] = pre[r].entries[path]
                     /\ \A root \in Roots, n \in DirNames :
                           (pre[root].entries[n] # 0 /\ <<root, n>> # <<r, path>>)
                               => \/ Kept(root, n)
                                  \/ /\ <<root, n>> = <<r, AddSuffix(path)>>
                                     /\ pre[root].entries[n] \in replaceable

\* C9 as stated: rename_game_folder moves the folder only in the first
\* library, in locator order, that holds it and leaves every other folder of
\* every library where it was; with no library holding it, it fails with
\* NotFound and nothing changes.
C9_AsStated == RenameFrame({})

\* C9 amended: as stated, except that an empty directory already standing at
\* the staged name in that library is replaced by the renamed folder.
C9_RenameFrame == RenameFrame(emptyDirs)

\* C9's case: both libraries held the folder, the rename succeeded in the
\* first and the second still holds its own.
C9_Witness ==
    /\ lastOp.op = "rename"
    /\ lastOp.ok
    /\ Len(libraries) = 2
    /\ Holding(lastOp.arg) = {1, 2}
    /\ common[libraries[1]].entries[lastOp.arg] = 0
    /\ Kept(libraries[2], lastOp.arg)
    /\ Kept(libraries[2], AddSuffix(lastOp.arg))

StripSuffix(n) == SubSeq(n, 1, Len(n) - 1)
SweptRoots == {libraries[i] : i \in 1..Len(libraries)}
Suffixed(pre) ==
    {<<root, n>> \in SweptRoots \X DirNames : pre[root].entries[n] # 0 /\ ends_with(n, SUFFIX)}
Restored(pre) ==
    {e \in Suffixed(pre) : common[e[1]].entries[StripSuffix(e[2])] = pre[e[1]].entries[e[2]]}

\* C4: cleanup_temp_folders renames every folder whose name ends with the
\* suffix, in every located library, to its name without the suffix, or
\* skips it when the rename fails; it returns exactly the names it restored and
\* leaves the folders without the suffix as they were.
C4_CleanupRestores ==
    lastOp.op = "cleanup" =>
        LET pre == lastOp.pre
        IN  /\ \A e \in Suffixed(pre) : e \in Restored(pre) \/ Kept(e[1], e[2])
            /\ {lastOp.ret[i] : i \in 1..Len(lastOp.ret)} = {StripSuffix(e[2]) : e \in Restored(pre)}
            /\ \A root \in Roots, n \in DirNames :
                  (pre[root].entries[n] # 0 /\ ~ends_with(n, SUFFIX)) => Kept(root, n)

(***************************************************************************)
(* The shortcut repair engine.  A shortcut file is its name and what the   *)
(* two patterns of process_shortcut find in its text: the digits after     *)
(* "URL=steam://rungameid/" and the path before the last ".ico" of the     *)
(* "IconFile=" line, each absent when the pattern does not match.          *)
(***************************************************************************)
ICO == ".ico"
Hex == {"a", "b", "c", "d", "e", "f", "0", "1", "2", "3", "4", "5", "6", "7", "8", "9"}

\* Path::file_name: what follows the last separator.
file_name(path) ==
    LET I == {i \in 1..Len(path) : path[i] = BS}
    IN  IF I = {} THEN path
        ELSE SubSeq(path, (CHOOSE i \in I : \A j \in I : j <= i) + 1, Len(path))

\* The first match of ([a-f0-9]+)\.ico in a file name: the leftmost run of
\* hex characters that is directly followed by ".ico".
HexRun(name, i, j) == \A k \in i..j : name[k] \in Hex
client_icon(name) ==
    LET M == {m \in (1..Len(name)) \X (1..Len(name)) :
                 /\ m[1] <= m[2]
                 /\ HexRun(name, m[1], m[2])
                 /\ m[2] < Len(name) /\ name[m[2] + 1] = ICO}
    IN  IF M = {} THEN None
        ELSE LET m == CHOOSE m \in M : \A o \in M : m[1] <= o[1]
             IN  Some(SubSeq(name, m[1], m[2]))

CdnUrl(game_id, hash) ==
    <<"https://cdn.cloudflare.steamstatic.com/steamcommunity/public/images/apps/">>
        \o game_id \o <<"/">> \o hash \o <<ICO>>

\* The steps of process_shortcut up to the icon URL.
Extract(entry) ==
    IF ~entry.readable THEN Err("Failed to read file")
    ELSE IF ~entry.url.some \/ entry.url.val = <<>> THEN Err("Not a Steam game shortcut")
    ELSE IF ~entry.icon.some THEN Err("No icon path found")
    ELSE LET icon_filename == file_name(entry.icon.val)
             hash == client_icon(icon_filename)
         IN  IF icon_filename = <<>> THEN Err("Could not extract icon filename")
             ELSE IF ~hash.some THEN Err("Could not extract icon hash")
             ELSE Ok([game_id |-> entry.url.val,
                      icon_filename |-> icon_filename,
                      icon_url |-> CdnUrl(entry.url.val, hash.val)])

\* str::eq_ignore_ascii_case on the extension.
Lower(ext) == IF ext \in {"URL", "Url"} THEN "url" ELSE ext
IsShortcutFile(entry) == entry.isFile /\ Lower(entry.ext) = "url"

SuccessFix(entry, x, location) ==
    [name |-> <<entry.stem>>, game_id |-> x.game_id, icon_url |-> x.icon_url,
     location |-> location, success |-> TRUE, error |-> None]

FailureFix(entry, location, e) ==
    [name |-> <<entry.stem, ".", entry.ext>>, game_id |-> <<>>, icon_url |-> <<>>,
     location |-> location, success |-> FALSE, error |-> Some(e)]

\* The response body served for a URL: one body per URL.
Body(url) == url

Absent == [st |-> "absent", body |-> <<>>]
CacheExists(f) == cache[f].st # "absent"

\* The position of the next entry to examine at or after (loc, idx); past the
\* last location when there is none.
RECURSIVE Norm(_, _)
Norm(loc, idx) ==
    IF loc > Len(locations) THEN <<loc, 1>>
    ELSE IF idx > Len(locations[loc].files) THEN Norm(loc + 1, 1)
    ELSE <<loc, idx>>

\* The loop moves on to the next entry, with `fix` pushed and the record of
\* how the entry was handled kept beside it.
Pushed(p, fix, how) ==
    LET n == Norm(inv[p].loc, inv[p].idx + 1)
    IN  [inv EXCEPT ![p].pc = "scan", ![p].loc = n[1], ![p].idx = n[2],
                    ![p].fixes = Append(@, fix),
                    ![p].trace = Append(@, how),
                    ![p].cur = None]

\* An error of process_shortcut ends the loop instead of being reported.
FailedAborts(p, entry, e, how) ==
    [inv EXCEPT ![p].pc = "scan", ![p].loc = Len(locations) + 1, ![p].idx = 1, ![p].cur = None]

\* The Err arm of quick_fix_shortcuts: a failed result is pushed.
Failed(p, entry, e, how) ==
    Pushed(p, FailureFix(entry, locations[inv[p].loc].name, e), how)

Skipped(p) ==
    LET n == Norm(inv[p].loc, inv[p].idx + 1)
    IN  [inv EXCEPT ![p].loc = n[1], ![p].idx = n[2]]

How(p, fname, hit, fetch, wrote, retry) ==
    [loc |-> inv[p].loc, idx |-> inv[p].idx, run |-> inv[p].run, fname |-> fname,
     hit |-> hit, fetch |-> fetch, wrote |-> wrote, retry |-> retry]

\* quick_fix_shortcuts up to its loop: the Steam directory is found or not,
\* and the cache directory is created when it does not exist.
Begin(p) ==
    /\ inv[p].pc = "idle"
    /\ \E env \in {"ok", "no steam", "mkdir fails"} :
          \/ /\ env = "no steam"
             /\ inv' = [inv EXCEPT ![p].pc = "failed", ![p].fixes = <<>>, ![p].trace = <<>>]
             /\ UNCHANGED cacheDir
          \/ /\ env = "mkdir fails" /\ ~cacheDir
             /\ inv' = [inv EXCEPT ![p].pc = "failed", ![p].fixes = <<>>, ![p].trace = <<>>]
             /\ UNCHANGED cacheDir
          \/ /\ env = "ok"
             /\ cacheDir' = TRUE
             /\ inv' = [inv EXCEPT ![p].pc = "scan", ![p].loc = Norm(1, 1)[1],
                                   ![p].idx = Norm(1, 1)[2],
                                   ![p].fixes = <<>>, ![p].trace = <<>>]
    /\ UNCHANGED <<fsVars, cmdVars, locations, cache, okBefore, pendingRetry, writes>>

\* The download is done whatever the cache holds.
AlwaysFetch(f) == TRUE

\* if !cache_icon_path.exists()
NeedsFetch(f) == ~CacheExists(f)

\* One entry of a location: skipped when it is not a .url file; otherwise
\* read and taken apart, and looked up in the cache.
Examine(p) ==
    /\ inv[p].pc = "scan"
    /\ inv[p].loc <= Len(locations)
    /\ LET entry == locations[inv[p].loc].files[inv[p].idx]
           x == Extract(entry)
       IN  IF ~IsShortcutFile(entry)
           THEN inv' = Skipped(p) /\ UNCHANGED pendingRetry
           ELSE IF ~x.ok
           THEN /\ inv' = Failed(p, entry, x.error, How(p, <<>>, FALSE, "none", FALSE, FALSE))
                /\ UNCHANGED pendingRetry
           ELSE LET f == x.val.icon_filename
                IN  /\ pendingRetry' = pendingRetry \ {f}
                    /\ IF ~NeedsFetch(f)
                       THEN inv' = Pushed(p, SuccessFix(entry, x.val, locations[inv[p].loc].name),
                                          How(p, f, CacheExists(f), "none", FALSE, f \in pendingRetry))
                       ELSE inv' = [inv EXCEPT ![p].pc = "fetch",
                                       ![p].cur = Some([entry |-> entry, x |-> x.val,
                                                        hit |-> CacheExists(f),
                                                        retry |-> f \in pendingRetry])]
    /\ UNCHANGED <<fsVars, cmdVars, locations, cacheDir, cache, okBefore, writes>>

\* A fetch that fails creates an empty cache file.
FetchFailureLeavesFile(c, f) == [c EXCEPT ![f] = [st |-> "partial", body |-> <<>>]]

\* A failed fetch returns before anything is written.
AfterFetchFailure(c, f) == c

\* client.get(url).send(), the status check and response.bytes().
Fetch(p) ==
    /\ inv[p].pc = "fetch"
    /\ LET cur == inv[p].cur.val
           f == cur.x.icon_filename
       IN  \E net \in {"ok", "Download failed", "HTTP error"} :
              IF net = "ok"
              THEN /\ inv' = [inv EXCEPT ![p].pc = "create"]
                   /\ UNCHANGED <<cache, pendingRetry>>
              ELSE /\ cache' = AfterFetchFailure(cache, f)
                   /\ pendingRetry' = pendingRetry \cup {f}
                   /\ inv' = Failed(p, cur.entry, net,
                                    How(p, f, cur.hit, net, cache' # cache, cur.retry))
    /\ UNCHANGED <<fsVars, cmdVars, locations, cacheDir, okBefore, writes>>

\* fs::write, first half: the file is created or truncated.
Create(p) ==
    /\ inv[p].pc = "create"
    /\ LET cur == inv[p].cur.val
           f == cur.x.icon_filename
       IN  \E io \in {"ok", "fails"} :
              IF io = "ok"
              THEN /\ cache' = [cache EXCEPT ![f] = [st |-> "partial", body |-> <<>>]]
                   /\ writes' = [writes EXCEPT ![f] = @ + 1]
                   /\ inv' = [inv EXCEPT ![p].pc = "write"]
              ELSE /\ inv' = Failed(p, cur.entry, "Failed to write icon",
                                    How(p, f, cur.hit, "ok", FALSE, cur.retry))
                   /\ UNCHANGED <<cache, writes>>
    /\ UNCHANGED <<fsVars, cmdVars, locations, cacheDir, okBefore, pendingRetry>>

\* fs::write, second half: the body is written out.
Write(p) ==
    /\ inv[p].pc = "write"
    /\ LET cur == inv[p].cur.val
           f == cur.x.icon_filename
       IN  \E io \in {"ok", "fails"} :
              IF io = "ok"
              THEN /\ cache' = [cache EXCEPT ![f] = [st |-> "complete", body |-> Body(cur.x.icon_url)]]
                   /\ inv' = Pushed(p, SuccessFix(cur.entry, cur.x, locations[inv[p].loc].name),
                                    How(p, f, cur.hit, "ok", TRUE, cur.retry))
              ELSE /\ inv' = Failed(p, cur.entry, "Failed to write icon",
                                    How(p, f, cur.hit, "ok", TRUE, cur.retry))
                   /\ UNCHANGED cache
    /\ UNCHANGED <<fsVars, cmdVars, locations, cacheDir, okBefore, pendingRetry, writes>>

\* The loop is over: Ok(fixes).
Finish(p) ==
    /\ inv[p].pc = "scan"
    /\ inv[p].loc > Len(locations)
    /\ inv' = [inv EXCEPT ![p].pc = "done"]
    /\ okBefore' = okBefore \cup
          {<<inv[p].trace[i].loc, inv[p].trace[i].idx, inv[p].run>> :
              i \in {j \in 1..Len(inv[p].fixes) : inv[p].fixes[j].success}}
    /\ UNCHANGED <<fsVars, cmdVars, locations, cacheDir, cache, pendingRetry, writes>>

\* The command is called again.
NewRun(p) ==
    /\ inv[p].pc \in {"done", "failed"}
    /\ inv[p].run < MaxRuns
    /\ inv' = [inv EXCEPT ![p].pc = "idle", ![p].run = @ + 1]
    /\ UNCHANGED <<fsVars, cmdVars, locations, cacheDir, cache, okBefore, pendingRetry, writes>>

(***************************************************************************)
(* The inputs of a repair: the shortcut files and the cache.               *)
(***************************************************************************)
IconsDir == <<"C", ":", BS, "i", BS>>
Id440 == <<"4", "4", "0">>
Id570 == <<"5", "7", "0">>
IconAbc == <<"a", "b", "c", ICO>>
IconGabc == <<"g", "a", "b", "c", ICO>>
IconXy == <<"x", "y", ICO>>
IconNames == {IconAbc, IconGabc}

ShortcutKinds ==
    {[stem |-> "tf2", ext |-> "url", isFile |-> TRUE, readable |-> TRUE,
      url |-> Some(Id440), icon |-> Some(IconsDir \o IconAbc)],
     [stem |-> "dota", ext |-> "url", isFile |-> TRUE, readable |-> TRUE,
      url |-> Some(Id570), icon |-> Some(IconsDir \o IconAbc)],
     [stem |-> "web", ext |-> "url", isFile |-> TRUE, readable |-> TRUE,
      url |-> None, icon |-> Some(IconsDir \o IconAbc)],
     [stem |-> "odd", ext |-> "url", isFile |-> TRUE, readable |-> TRUE,
      url |-> Some(Id440), icon |-> Some(IconsDir \o IconXy)],
     [stem |-> "cs", ext |-> "URL", isFile |-> TRUE, readable |-> TRUE,
      url |-> Some(Id440), icon |-> Some(IconsDir \o IconGabc)],
     [stem |-> "notes", ext |-> "lnk", isFile |-> TRUE, readable |-> TRUE,
      url |-> Some(Id570), icon |-> Some(IconsDir \o IconAbc)],
     [stem |-> "locked", ext |-> "url", isFile |-> TRUE, readable |-> FALSE,
      url |-> Some(Id440), icon |-> Some(IconsDir \o IconAbc)]}

\* The entries of one directory have different names.
DistinctNames(files) ==
    \A i, j \in 1..Len(files) : i # j => files[i].stem # files[j].stem

Idle == [pc |-> "idle", loc |-> 1, idx |-> 1, fixes |-> <<>>, trace |-> <<>>,
         cur |-> None, run |-> 1]

InitShortcuts(kinds, procs) ==
    /\ steamapps_path = RC
    /\ vdf = [readable |-> FALSE, lines |-> <<>>]
    /\ disk = {RC}
    /\ common = [r \in Roots |-> NoCommon(r)]
    /\ emptyDirs = {}
    /\ listing = [r \in Roots |-> <<>>]
    /\ libraries = <<>>
    /\ games = <<>>
    /\ parsed = <<>>
    /\ lastOp = NoOp
    /\ pc = "idle"
    /\ \E d \in SeqsUpTo(kinds, MaxShortcuts) :
       \E m \in SeqsUpTo(kinds, MaxShortcuts - Len(d)) :
          /\ DistinctNames(d) /\ DistinctNames(m)
          /\ locations = <<[name |-> "Desktop", files |-> d], [name |-> "Programs", files |-> m]>>
    /\ cache \in {[f \in IconNames |-> Absent],
                  [f \in IconNames |-> IF f = IconAbc
                                       THEN [st |-> "complete", body |-> Body(CdnUrl(Id440, <<"a", "b", "c">>))]
                                       ELSE Absent]}
    /\ cacheDir \in {TRUE, CacheExists(IconAbc)}
    /\ inv = [p \in procs |-> Idle]
    /\ okBefore = {}
    /\ pendingRetry = {}
    /\ writes = [f \in IconNames |-> 0]

InitRepair == InitShortcuts(ShortcutKinds, {1})

NextRepair ==
    \/ \E p \in DOMAIN inv : Begin(p)
    \/ \E p \in DOMAIN inv : Examine(p)
    \/ \E p \in DOMAIN inv : Fetch(p)
    \/ \E p \in DOMAIN inv : Create(p)
    \/ \E p \in DOMAIN inv : Write(p)
    \/ \E p \in DOMAIN inv : Finish(p)
    \/ \E p \in DOMAIN inv : NewRun(p)

\* One invocation at a time, called again and again.
SpecRepair == InitRepair /\ [][NextRepair]_vars

\* Two invocations at once over the same shortcuts and the same cache; every
\* shortcut that names an icon file names it with the same URL.
RaceKinds == {k \in ShortcutKinds : k.stem \in {"tf2", "cs"}}

InitRace == InitShortcuts(RaceKinds, {1, 2})

NextRace ==
    \/ \E p \in DOMAIN inv : Begin(p)
    \/ \E p \in DOMAIN inv : Examine(p)
    \/ \E p \in DOMAIN inv : Fetch(p)
    \/ \E p \in DOMAIN inv : Create(p)
    \/ \E p \in DOMAIN inv : Write(p)
    \/ \E p \in DOMAIN inv : Finish(p)

SpecRace == InitRace /\ [][NextRace]_vars

(***************************************************************************)
(* Claims about the shortcut repair engine.                                *)
(***************************************************************************)
EntryOf(t) == locations[t.loc].files[t.idx]
Started(p) == inv[p].pc \in {"scan", "fetch", "create", "write", "done"}

\* The .url files before position (loc, idx), in scan order.
ShortcutsBefore(loc, idx) ==
    {q \in (1..Len(locations)) \X (1..MaxShortcuts + 1) :
        /\ q[2] <= Len(locations[q[1]].files)
        /\ IsShortcutFile(locations[q[1]].files[q[2]])
        /\ q[1] < loc \/ (q[1] = loc /\ q[2] < idx)}

AllShortcuts == ShortcutsBefore(Len(locations) + 1, 1)

\* C5: every .url file examined gets exactly one result, in scan order, and a
\* readable shortcut without the URL=steam://rungameid/ line gets a failed one
\* with an error and an empty identifier, after which the later files of the
\* same and of later locations are still examined and reported.
C5_OneResultPerShortcut ==
    \A p \in DOMAIN inv :
        Started(p) =>
            LET r == inv[p]
            IN  /\ Len(r.fixes) = Cardinality(ShortcutsBefore(r.loc, r.idx))
                /\ {<<r.trace[i].loc, r.trace[i].idx>> : i \in 1..Len(r.trace)}
                      = ShortcutsBefore(r.loc, r.idx)
                /\ r.pc = "done" => Len(r.fixes) = Cardinality(AllShortcuts)
                /\ \A i \in 1..Len(r.fixes) :
                      (EntryOf(r.trace[i]).readable /\ ~EntryOf(r.trace[i]).url.some)
                          => /\ ~r.fixes[i].success
                             /\ r.fixes[i].error.some
                             /\ r.fixes[i].error.val # ""
                             /\ r.fixes[i].game_id = <<>>

\* C5's case: a shortcut without the URL line was reported failed and a
\* shortcut of a later location was repaired after it.
C5_Witness ==
    \E p \in DOMAIN inv :
        /\ inv[p].pc = "done"
        /\ \E i, j \in 1..Len(inv[p].fixes) :
              /\ i < j
              /\ ~EntryOf(inv[p].trace[i]).url.some
              /\ ~inv[p].fixes[i].success
              /\ inv[p].trace[i].loc < inv[p].trace[j].loc
              /\ inv[p].fixes[j].success

\* A run before that of t reported t's shortcut file succeeded.
SucceededEarlier(t) == \E r \in 1..(t.run - 1) : <<t.loc, t.idx, r>> \in okBefore

\* The URL a shortcut resolves to: the CDN template over its identifier and
\* the hex characters that end the icon path before ".ico".
ExpectedUrl(e) ==
    LET path == e.icon.val
        n == Len(path)
        start == CHOOSE i \in 1..n : /\ \A k \in i..(n - 1) : path[k] \in Hex
                                     /\ i = 1 \/ path[i - 1] \notin Hex
    IN  CdnUrl(e.url.val, SubSeq(path, start, n - 1))

\* C6: a shortcut whose icon file is in the cache when it is examined is
\* reported succeeded with its resolved URL without a fetch and without a
\* write; a repeated run fetches nothing for a shortcut that an earlier run
\* reported succeeded; no cache file is created more than once.
C6_WarmCacheNoFetch ==
    /\ \A p \in DOMAIN inv : \A i \in 1..Len(inv[p].trace) :
          LET t == inv[p].trace[i]
              fix == inv[p].fixes[i]
          IN  /\ t.hit => /\ t.fetch = "none"
                          /\ ~t.wrote
                          /\ fix.success
                          /\ fix.icon_url = ExpectedUrl(EntryOf(t))
              /\ SucceededEarlier(t) => t.fetch = "none"
    /\ \A f \in IconNames : writes[f] <= 1

\* C6's case: in a repeated run, a shortcut that the first run repaired by
\* writing its icon finds it in the cache and is reported succeeded.
C6_Witness ==
    \E p \in DOMAIN inv : \E i \in 1..Len(inv[p].trace) :
        /\ inv[p].trace[i].hit
        /\ SucceededEarlier(inv[p].trace[i])
        /\ writes[inv[p].trace[i].fname] = 1
        /\ inv[p].fixes[i].success

FetchFailed(t) == t.fetch \in {"Download failed", "HTTP error"}

\* C10: a shortcut whose fetch fails is reported failed with the error and
\* nothing is created or changed in the cache for its icon file name; the
\* other shortcuts are still examined; the next shortcut that asks for the
\* same icon file name, in this run or a later one, fetches again.
C10_FetchFailureNotCached ==
    /\ \A p \in DOMAIN inv : \A i \in 1..Len(inv[p].trace) :
          LET t == inv[p].trace[i]
              fix == inv[p].fixes[i]
          IN  /\ FetchFailed(t) => /\ ~fix.success
                                   /\ fix.error = Some(t.fetch)
                                   /\ ~t.wrote
                                   /\ ~t.hit
              /\ t.retry => t.fetch # "none"
    /\ \A f \in pendingRetry : ~CacheExists(f)
    /\ \A p \in DOMAIN inv :
          inv[p].pc = "done" => Len(inv[p].fixes) = Cardinality(AllShortcuts)

\* C10's case: a fetch failed, and a later shortcut with the same icon file
\* name fetched again and was repaired.
C10_Witness ==
    \E p \in DOMAIN inv : \E i, j \in 1..Len(inv[p].trace) :
        /\ i < j
        /\ FetchFailed(inv[p].trace[i])
        /\ inv[p].trace[j].fname = inv[p].trace[i].fname
        /\ inv[p].trace[j].retry
        /\ inv[p].trace[j].fetch = "ok"
        /\ inv[p].fixes[j].success

\* C7: with two invocations at once, a shortcut reported succeeded has its
\* icon file in the cache, complete, with the body its URL serves, whichever
\* invocation wrote it.
C7_RaceLeavesCacheSound ==
    \A p \in DOMAIN inv : \A i \in 1..Len(inv[p].fixes) :
        inv[p].fixes[i].success =>
            /\ cache[inv[p].trace[i].fname].st = "complete"
            /\ cache[inv[p].trace[i].fname].body = Body(inv[p].fixes[i].icon_url)

====
